---------------------------- MODULE Spec2Model ----------------------------
(***************************************************************************)
(* Model of the length-bounded segmenter of tts-audiobook-creator:         *)
(* insert_periods_at_splits and split_and_insert_period.                   *)
(*                                                                         *)
(* A Python str is modelled as a sequence of one-character strings.        *)
(* Python indices are 0-based; the operators below keep Python's indices   *)
(* and convert to TLA+'s 1-based sequences internally.                     *)
(***************************************************************************)
EXTENDS Integers, Sequences, FiniteSets, TLC

(***************************************************************************)
(* Bounds of the model.                                                    *)
(***************************************************************************)
\* The longest text given to insert_periods_at_splits, the longest sentence
\* given to split_and_insert_period, and the range of max_length.
MaxTextLen == 4
MaxSentenceLen == 5
MaxMaxLength == 3
MinMaxLength == 0 - 1

\* Python's recursion limit (sys.getrecursionlimit(), 1000 by default) scaled
\* to the model: deeper than any terminating recursion on a bounded sentence.
RecursionLimit == MaxSentenceLen + 2

Letters == {"a"}
Whitespace == {" ", "\n"}
Alphabet == Letters \cup Whitespace \cup {",", ".", "!"}

RECURSIVE StringsUpTo(_)
StringsUpTo(n) ==
    IF n = 0 THEN {<<>>}
    ELSE LET shorter == StringsUpTo(n - 1)
         IN shorter \cup {Append(s, c) : s \in {t \in shorter : Len(t) = n - 1}, c \in Alphabet}

Texts == StringsUpTo(MaxTextLen)
Sentences == StringsUpTo(MaxSentenceLen)
MaxLengths == MinMaxLength .. MaxMaxLength

(***************************************************************************)
(* Python str primitives.                                                  *)
(***************************************************************************)
Min(a, b) == IF a < b THEN a ELSE b
Max(a, b) == IF a > b THEN a ELSE b

\* Python's normalisation of a slice bound: negative counts from the end,
\* then clamps into 0 .. len.
SliceIndex(s, i) == IF i < 0 THEN Max(Len(s) + i, 0) ELSE Min(i, Len(s))

\* s[i:j]
PySlice(s, i, j) ==
    LET lo == SliceIndex(s, i)
        hi == SliceIndex(s, j)
    IN IF lo >= hi THEN <<>> ELSE SubSeq(s, lo + 1, hi)

\* s[:j]
PySliceTo(s, j) == PySlice(s, 0, j)

\* s[i:]
PySliceFrom(s, i) == PySlice(s, i, Len(s))

\* s[i] is defined for -len <= i < len, and raises IndexError otherwise.
IndexInRange(s, i) == (0 - Len(s)) <= i /\ i < Len(s)
PyIndex(s, i) == IF i < 0 THEN s[Len(s) + i + 1] ELSE s[i + 1]

\* s.rfind(c, start, end): the highest index in s[start:end] holding c, or -1.
rfind(s, c, start, end) ==
    LET lo == SliceIndex(s, start)
        hi == SliceIndex(s, end)
        hits == {i \in lo .. (hi - 1) : s[i + 1] = c}
    IN IF hits = {} THEN 0 - 1 ELSE CHOOSE i \in hits : \A j \in hits : j <= i

\* s.endswith(c)
endswith(s, c) == Len(s) > 0 /\ s[Len(s)] = c

RECURSIVE lstrip(_)
lstrip(s) == IF Len(s) > 0 /\ s[1] \in Whitespace THEN lstrip(Tail(s)) ELSE s

RECURSIVE rstrip(_)
rstrip(s) ==
    IF Len(s) > 0 /\ s[Len(s)] \in Whitespace THEN rstrip(SubSeq(s, 1, Len(s) - 1)) ELSE s

\* s.strip()
strip(s) == lstrip(rstrip(s))

\* split with the empty pieces dropped, as s.split() without a separator does.
RECURSIVE split_DropsEmpty(_, _)
split_DropsEmpty(s, sep) ==
    LET hits == {i \in 1 .. Len(s) : s[i] = sep}
    IN IF hits = {} THEN (IF Len(s) = 0 THEN <<>> ELSE <<s>>)
       ELSE LET i == CHOOSE k \in hits : \A j \in hits : k <= j
            IN (IF i = 1 THEN <<>> ELSE <<SubSeq(s, 1, i - 1)>>)
                   \o split_DropsEmpty(SubSeq(s, i + 1, Len(s)), sep)

\* s.split(sep): the pieces between the occurrences of sep, empty ones kept.
RECURSIVE split(_, _)
split(s, sep) ==
    LET hits == {i \in 1 .. Len(s) : s[i] = sep}
    IN IF hits = {} THEN <<s>>
       ELSE LET i == CHOOSE k \in hits : \A j \in hits : k <= j
            IN <<SubSeq(s, 1, i - 1)>> \o split(SubSeq(s, i + 1, Len(s)), sep)

\* sep.join(parts)
RECURSIVE join(_, _)
join(parts, sep) ==
    IF Len(parts) = 0 THEN <<>>
    ELSE IF Len(parts) = 1 THEN parts[1]
    ELSE parts[1] \o <<sep>> \o join(Tail(parts), sep)


(***************************************************************************)
(* nltk.tokenize.sent_tokenize (Punkt), an external library.  Punkt may    *)
(* break after a sentence-end character that is followed by more text;     *)
(* whether it does depends on its trained abbreviation and collocation     *)
(* data, so every choice of breaks is allowed.  The sentence after a break *)
(* starts at the next token (the whitespace between is dropped), trailing  *)
(* whitespace of the text is dropped, and a text with no token yields no   *)
(* sentence.                                                               *)
(***************************************************************************)
SentEndChars == {".", "!"}

RECURSIVE CutAt(_, _, _)
CutAt(body, breaks, from) ==
    IF breaks = {} THEN <<SubSeq(body, from, Len(body))>>
    ELSE LET i == CHOOSE k \in breaks : \A j \in breaks : k <= j
         IN <<SubSeq(body, from, i)>> \o CutAt(body, breaks \ {i}, i + 1)

sent_tokenize(paragraph) ==
    LET body == rstrip(paragraph)
        candidates == {i \in 1 .. (Len(body) - 1) : body[i] \in SentEndChars}
    IN IF body = <<>> THEN {<<>>}
       ELSE {[k \in 1 .. Len(CutAt(body, breaks, 1)) |->
                 IF k = 1 THEN CutAt(body, breaks, 1)[k]
                 ELSE lstrip(CutAt(body, breaks, 1)[k])] : breaks \in SUBSET candidates}

(***************************************************************************)
(* State.                                                                  *)
(***************************************************************************)
VARIABLES
    entry,                \* the function called
    text,                 \* its first argument
    max_length,           \* its second argument
    pc,                   \* position in the code
    paragraphs,           \* insert_periods_at_splits: paragraphs still to process
    modified_paragraphs,  \* insert_periods_at_splits: modified_paragraphs
    sentences,            \* insert_periods_at_splits: sentences still to process
    modified_sentences,   \* insert_periods_at_splits: modified_sentences
    sentence,             \* the sentence of the current iteration or call
    frames,               \* pending calls of split_and_insert_period, outermost first
    result,               \* the value returned by the call that returned last
    output                \* the value returned to the caller of the entry function

vars == <<entry, text, max_length, pc, paragraphs, modified_paragraphs, sentences,
          modified_sentences, sentence, frames, result, output>>

\* A call of entry function e with first argument t and second argument m.
Called(e, t, m) ==
    /\ entry = e
    /\ text = t
    /\ max_length = m
    /\ pc = "start"
    /\ paragraphs = <<>>
    /\ modified_paragraphs = <<>>
    /\ sentences = <<>>
    /\ modified_sentences = <<>>
    /\ sentence = <<>>
    /\ frames = <<>>
    /\ result = <<>>
    /\ output = <<>>

\* insert_periods_at_splits(text, max_length) is called.
Init == \E t \in Texts, m \in MaxLengths : Called("insert_periods_at_splits", t, m)

\* split_and_insert_period(text, max_length) is called.
InitSplit == \E t \in Sentences, m \in MaxLengths : Called("split_and_insert_period", t, m)

(***************************************************************************)
(* split_and_insert_period                                                 *)
(***************************************************************************)
\* SplitPoint with the hard cut one character early.
SplitPoint_CutsOneEarly(s, m) ==
    LET comma == rfind(s, ",", 0, m)
        found == IF comma = 0 - 1 THEN rfind(s, " ", 0, m) ELSE comma
    IN IF found = 0 - 1 \/ found = 0 THEN m - 1 ELSE found

\* SplitPoint with the hard cut one character late.
SplitPoint_CutsOneLate(s, m) ==
    LET comma == rfind(s, ",", 0, m)
        found == IF comma = 0 - 1 THEN rfind(s, " ", 0, m) ELSE comma
    IN IF found = 0 - 1 \/ found = 0 THEN m + 1 ELSE found

\* SplitPoint without the fallback of lines 240-241.
SplitPoint_NoFallback(s, m) ==
    LET comma == rfind(s, ",", 0, m)
    IN IF comma = 0 - 1 THEN rfind(s, " ", 0, m) ELSE comma

\* SplitPoint cutting at the delimiter nearest to max_length, comma or space.
SplitPoint_NearestDelimiter(s, m) ==
    LET found == Max(rfind(s, ",", 0, m), rfind(s, " ", 0, m))
    IN IF found = 0 - 1 \/ found = 0 THEN m ELSE found

\* Lines 237-241: the index the sentence is cut at.
SplitPoint(s, m) ==
    LET comma == rfind(s, ",", 0, m)
        found == IF comma = 0 - 1 THEN rfind(s, " ", 0, m) ELSE comma
    IN IF found = 0 - 1 \/ found = 0 THEN m ELSE found

\* Part1 dropping the last character before the period whatever it is.
Part1_AlwaysTrims(s, sp) == PySliceTo(strip(PySliceTo(s, sp)), 0 - 1) \o <<".">>

\* Line 242, then line 246.
Part1(s, sp) ==
    LET part1 == strip(PySliceTo(s, sp))
    IN (IF endswith(part1, ",") THEN PySliceTo(part1, 0 - 1) ELSE part1) \o <<".">>

\* Part2 skipping the character at the cut whatever it is.
Part2_SkipsCutChar(s, sp) == strip(PySliceFrom(s, sp + 1))

\* Line 243.
Part2(s, sp) ==
    IF PyIndex(s, sp) = "," THEN strip(PySliceFrom(s, sp + 1)) ELSE strip(PySliceFrom(s, sp))

\* WithPeriod appending nothing.
WithPeriod_Unchanged(s) == s

\* Line 234 (and lines 221-222 of insert_periods_at_splits).
WithPeriod(s) == IF endswith(s, ".") THEN s ELSE s \o <<".">>

\* The entry function is split_and_insert_period(text, max_length).
CallSplit ==
    /\ pc = "start"
    /\ entry = "split_and_insert_period"
    /\ sentence' = text
    /\ pc' = "split"
    /\ UNCHANGED <<entry, text, max_length, paragraphs, modified_paragraphs, sentences,
                   modified_sentences, frames, result, output>>

\* Lines 233-234: the base case returns.
BaseCase ==
    /\ pc = "split"
    /\ Len(sentence) <= max_length
    /\ result' = WithPeriod(sentence)
    /\ pc' = "base_returned"
    /\ UNCHANGED <<entry, text, max_length, paragraphs, modified_paragraphs, sentences,
                   modified_sentences, sentence, frames, output>>

\* Lines 235-248: cut the sentence and call split_and_insert_period(part2, max_length).
Recurse ==
    /\ pc = "split"
    /\ Len(sentence) > max_length
    /\ LET sp == SplitPoint(sentence, max_length)
       IN IF ~IndexInRange(sentence, sp)
          THEN \* line 243: sentence[split_point] raises IndexError
               /\ pc' = "IndexError"
               /\ UNCHANGED <<sentence, frames>>
          ELSE IF Len(frames) + 1 >= RecursionLimit
          THEN \* line 248: the call exceeds the recursion limit
               /\ pc' = "RecursionError"
               /\ UNCHANGED <<sentence, frames>>
          ELSE /\ frames' = Append(frames, [sentence |-> sentence, split_point |-> sp,
                                            part1 |-> Part1(sentence, sp),
                                            part2 |-> Part2(sentence, sp)])
               /\ sentence' = Part2(sentence, sp)
               /\ pc' = "split"
    /\ UNCHANGED <<entry, text, max_length, paragraphs, modified_paragraphs, sentences,
                   modified_sentences, result, output>>

\* Line 249: a pending call gets part2_processed and returns.
Return ==
    /\ pc \in {"base_returned", "returned"}
    /\ Len(frames) > 0
    /\ LET frame == frames[Len(frames)]
       IN result' = frame.part1 \o (IF result = <<".">> THEN <<>> ELSE <<" ">> \o result)
    /\ frames' = SubSeq(frames, 1, Len(frames) - 1)
    /\ pc' = "returned"
    /\ UNCHANGED <<entry, text, max_length, paragraphs, modified_paragraphs, sentences,
                   modified_sentences, sentence, output>>

\* The outermost call returns to the caller of the entry function.
ReturnSplit ==
    /\ pc \in {"base_returned", "returned"}
    /\ Len(frames) = 0
    /\ entry = "split_and_insert_period"
    /\ output' = result
    /\ pc' = "done"
    /\ UNCHANGED <<entry, text, max_length, paragraphs, modified_paragraphs, sentences,
                   modified_sentences, sentence, frames, result>>

(***************************************************************************)
(* insert_periods_at_splits                                                *)
(***************************************************************************)
\* Lines 211-212.
SplitParagraphs ==
    /\ pc = "start"
    /\ entry = "insert_periods_at_splits"
    /\ paragraphs' = split(text, "\n")
    /\ modified_paragraphs' = <<>>
    /\ pc' = "for_paragraph"
    /\ UNCHANGED <<entry, text, max_length, sentences, modified_sentences, sentence,
                   frames, result, output>>

\* Lines 214-216.
NextParagraph ==
    /\ pc = "for_paragraph"
    /\ Len(paragraphs) > 0
    /\ sentences' \in sent_tokenize(Head(paragraphs))
    /\ paragraphs' = Tail(paragraphs)
    /\ modified_sentences' = <<>>
    /\ pc' = "for_sentence"
    /\ UNCHANGED <<entry, text, max_length, modified_paragraphs, sentence, frames,
                   result, output>>

\* Lines 217-220: a sentence longer than max_length is handed to
\* split_and_insert_period.
LongSentence ==
    /\ pc = "for_sentence"
    /\ Len(sentences) > 0
    /\ Len(Head(sentences)) > max_length
    /\ sentence' = Head(sentences)
    /\ sentences' = Tail(sentences)
    /\ pc' = "split"
    /\ UNCHANGED <<entry, text, max_length, paragraphs, modified_paragraphs,
                   modified_sentences, frames, result, output>>

\* Lines 217-218, 221-222: a sentence within max_length gets a period unless
\* it ends with one.
ShortSentence ==
    /\ pc = "for_sentence"
    /\ Len(sentences) > 0
    /\ Len(Head(sentences)) <= max_length
    /\ sentence' = WithPeriod(Head(sentences))
    /\ sentences' = Tail(sentences)
    /\ pc' = "short_sentence"
    /\ UNCHANGED <<entry, text, max_length, paragraphs, modified_paragraphs,
                   modified_sentences, frames, result, output>>

\* Line 220: split_and_insert_period returned; its value becomes the sentence.
AssignSplit ==
    /\ pc \in {"base_returned", "returned"}
    /\ Len(frames) = 0
    /\ entry = "insert_periods_at_splits"
    /\ sentence' = result
    /\ pc' = "long_sentence"
    /\ UNCHANGED <<entry, text, max_length, paragraphs, modified_paragraphs, sentences,
                   modified_sentences, frames, result, output>>

\* Line 223.
AppendSentence ==
    /\ pc \in {"short_sentence", "long_sentence"}
    /\ modified_sentences' = Append(modified_sentences, sentence)
    /\ pc' = "for_sentence"
    /\ UNCHANGED <<entry, text, max_length, paragraphs, modified_paragraphs, sentences,
                   sentence, frames, result, output>>

\* Line 225.
JoinSentences ==
    /\ pc = "for_sentence"
    /\ Len(sentences) = 0
    /\ modified_paragraphs' = Append(modified_paragraphs, join(modified_sentences, " "))
    /\ pc' = "for_paragraph"
    /\ UNCHANGED <<entry, text, max_length, paragraphs, sentences, modified_sentences,
                   sentence, frames, result, output>>

\* Line 228.
JoinParagraphs ==
    /\ pc = "for_paragraph"
    /\ Len(paragraphs) = 0
    /\ output' = join(modified_paragraphs, "\n")
    /\ pc' = "done"
    /\ UNCHANGED <<entry, text, max_length, paragraphs, modified_paragraphs, sentences,
                   modified_sentences, sentence, frames, result>>

Next ==
    \/ BaseCase
    \/ Recurse
    \/ Return
    \/ SplitParagraphs
    \/ NextParagraph
    \/ LongSentence
    \/ ShortSentence
    \/ AssignSplit
    \/ AppendSentence
    \/ JoinSentences
    \/ JoinParagraphs

Spec == Init /\ [][Next]_vars

NextSplit ==
    \/ CallSplit
    \/ BaseCase
    \/ Recurse
    \/ Return
    \/ ReturnSplit

SpecSplit == InitSplit /\ [][NextSplit]_vars

TypeOK ==
    /\ pc \in {"start", "split", "base_returned", "returned", "done", "IndexError",
               "RecursionError", "for_paragraph", "for_sentence", "short_sentence",
               "long_sentence"}
    /\ Len(frames) < RecursionLimit

(***************************************************************************)
(* split_and_insert_period as a function of its arguments, for             *)
(* max_length >= 1: the segments it produces, in order, and the string it  *)
(* returns (line 249 joins them with single spaces).                       *)
(***************************************************************************)
RECURSIVE split_segments(_, _)
split_segments(s, m) ==
    IF Len(s) <= m THEN <<WithPeriod(s)>>
    ELSE LET sp == SplitPoint(s, m)
             rest == split_segments(Part2(s, sp), m)
         IN <<Part1(s, sp)>> \o (IF rest = <<<<".">>>> THEN <<>> ELSE rest)

split_and_insert_period(s, m) == join(split_segments(s, m), " ")

(***************************************************************************)
(* Observations on a state.                                                *)
(***************************************************************************)
\* The innermost call of split_and_insert_period has just returned: frames
\* holds every pending call and result the value of the base case.
AtBase == pc = "base_returned"

\* The sentence the outermost call was given.
Outermost == IF Len(frames) = 0 THEN sentence ELSE frames[1].sentence

\* The segments the pending calls will return, by line 249: each call puts
\* its part1 before what its recursive call returned, and drops a returned ".".
RECURSIVE SegmentsFrom(_)
SegmentsFrom(k) ==
    IF k > Len(frames) THEN <<result>>
    ELSE LET rest == SegmentsFrom(k + 1)
         IN <<frames[k].part1>> \o (IF rest = <<<<".">>>> THEN <<>> ELSE rest)

Segments == SegmentsFrom(1)

Failed == pc \in {"IndexError", "RecursionError"}

RECURSIVE Remove(_, _)
Remove(s, chars) ==
    IF Len(s) = 0 THEN <<>>
    ELSE (IF Head(s) \in chars THEN <<>> ELSE <<Head(s)>>) \o Remove(Tail(s), chars)

Count(s, c) == Cardinality({i \in 1 .. Len(s) : s[i] = c})

\* The stepwise calls and the function agree on what is returned.
StepsAgreeWithFunction ==
    /\ (AtBase /\ max_length >= 1) => Segments = split_segments(Outermost, max_length)
    /\ (pc = "done" /\ entry = "split_and_insert_period" /\ max_length >= 1)
           => output = split_and_insert_period(text, max_length)

(***************************************************************************)
(* Claims.                                                                 *)
(***************************************************************************)
\* A segment that the policy could not have cut: no space and no comma at an
\* index below max_length.
Unsplittable(seg, m) ==
    \A i \in 1 .. Min(Len(seg), m) : seg[i] # " " /\ seg[i] # ","

WithinLimit(seg, m) == Len(seg) <= m \/ Unsplittable(seg, m)

\* C1: for max_length > 0, every emitted segment, counted with its appended
\* period, has length <= max_length, unless it has no space and no comma
\* before position max_length.
C1_SegmentsWithinMaxLength ==
    max_length > 0 =>
        /\ AtBase => \A k \in 1 .. Len(Segments) : WithinLimit(Segments[k], max_length)
        /\ pc = "short_sentence" => WithinLimit(sentence, max_length)

\* out is s with periods inserted, and nothing else changed.
RECURSIVE PeriodsInserted(_, _)
PeriodsInserted(s, out) ==
    IF Len(out) = 0 THEN Len(s) = 0
    ELSE \/ Len(s) > 0 /\ Head(s) = Head(out) /\ PeriodsInserted(Tail(s), Tail(out))
         \/ Head(out) = "." /\ PeriodsInserted(s, Tail(out))

\* C2 as stated: for max_length > 0, the output with the inserted periods and
\* all whitespace removed equals the input with whitespace removed.
C2_NoContentLoss_AsStated ==
    (pc = "done" /\ max_length > 0) =>
        PeriodsInserted(Remove(text, Whitespace), Remove(output, Whitespace))

\* C2 as amended: for max_length > 0, the output with the inserted periods,
\* all whitespace and all commas removed equals the input with whitespace and
\* commas removed.
C2_NoContentLoss ==
    (pc = "done" /\ max_length > 0) =>
        PeriodsInserted(Remove(text, Whitespace \cup {","}),
                        Remove(output, Whitespace \cup {","}))

\* C2's case: a sentence was cut at a comma, and the comma is not in the output.
C2_Witness ==
    /\ pc = "done"
    /\ max_length > 0
    /\ Len(text) > max_length
    /\ text[1] \in Letters
    /\ \E i \in 2 .. max_length : text[i] = ","
    /\ Count(text, ",") > Count(output, ",")
    /\ Count(output, "a") > 1

\* A single word: no whitespace and no comma.
IsWord(s) == Len(s) > 0 /\ \A i \in 1 .. Len(s) : s[i] \notin Whitespace /\ s[i] # ","

LongWord == max_length >= 1 /\ IsWord(Outermost) /\ Len(Outermost) > max_length

\* C3 as stated: a single word (of letters) longer than max_length is emitted
\* as exactly one segment, the whole word plus one appended period.
C3_LongWordOneSegment_AsStated ==
    (AtBase /\ LongWord /\ \A i \in 1 .. Len(Outermost) : Outermost[i] \in Letters)
        => Segments = <<Outermost \o <<".">>>>

\* The k-th piece of max_length characters of s.
Chunk(s, k, m) == SubSeq(s, (k - 1) * m + 1, Min(k * m, Len(s)))

\* C3 as amended: a single word longer than max_length >= 1 is hard-cut every
\* max_length characters, so into more than one piece: each piece but the last
\* is emitted with one appended period, the last with a period appended unless
\* it ends with one, and a last piece that is a period alone is dropped; no
\* character of the word other than such a final period is lost, and the call
\* returns.
C3_LongWordHardCut ==
    /\ (AtBase /\ LongWord) =>
        /\ Len(frames) >= 1
        /\ Len(frames) * max_length < Len(Outermost)
        /\ Len(Outermost) <= (Len(frames) + 1) * max_length
        /\ \A k \in 1 .. Len(frames) :
               /\ frames[k].split_point = max_length
               /\ frames[k].part1 = Chunk(Outermost, k, max_length) \o <<".">>
        /\ result = WithPeriod(Chunk(Outermost, Len(frames) + 1, max_length))
        /\ Segments = [k \in 1 .. Len(frames) |-> frames[k].part1]
                          \o (IF result = <<".">> THEN <<>> ELSE <<result>>)
    /\ ~(LongWord /\ Failed)

\* C3's case: a long word was cut into three pieces or more.
C3_Witness == AtBase /\ LongWord /\ Len(frames) >= 2 /\ Len(Segments) = Len(frames) + 1

\* C4: a call with max_length <= 0 is rejected at entry: it returns no
\* output, produces no part of one and does not recurse.
C4_NonPositiveRejected ==
    max_length <= 0 =>
        /\ pc \notin {"done", "RecursionError"}
        /\ Len(frames) = 0
        /\ modified_paragraphs = <<>>
        /\ modified_sentences = <<>>

\* C5: for max_length >= 1, the remainder part2 of every cut is strictly
\* shorter than the sentence that was cut, whichever cut was chosen, so no
\* call fails or exceeds the recursion limit.
C5_RemainderShrinks ==
    max_length >= 1 =>
        /\ \A k \in 1 .. Len(frames) : Len(frames[k].part2) < Len(frames[k].sentence)
        /\ pc = "split" => Len(sentence) <= Len(text) - Len(frames)
        /\ ~Failed

CutIsComma(f) == f.split_point < max_length /\ f.sentence[f.split_point + 1] = ","
CutIsSpace(f) == f.split_point < max_length /\ f.sentence[f.split_point + 1] = " "
CutIsHard(f) == f.split_point = max_length

\* C5's case: a comma cut, a space cut or a hard cut, followed by another cut.
C5_Witness ==
    /\ max_length >= 1
    /\ AtBase
    /\ Len(frames) >= 2
    /\ CutIsComma(frames[1]) \/ CutIsSpace(frames[1])
    /\ CutIsHard(frames[2])

\* The highest index i <= limit with s[i] = c (Python index), or -1.
LastIndexUpTo(s, c, limit) ==
    LET hits == {i \in 0 .. Min(limit, Len(s) - 1) : s[i + 1] = c}
    IN IF hits = {} THEN 0 - 1 ELSE CHOOSE i \in hits : \A j \in hits : j <= i

\* The cut of the policy that looks for a comma, then a space, at an index up
\* to limit, and cuts at max_length when it finds none or finds index 0.
PolicyCut(s, m, limit) ==
    LET comma == LastIndexUpTo(s, ",", limit)
        space == LastIndexUpTo(s, " ", limit)
        found == IF comma # 0 - 1 THEN comma ELSE space
    IN IF found = 0 - 1 \/ found = 0 THEN m ELSE found

\* C6 as stated: a sentence longer than max_length is cut at the last comma at
\* or before index max_length, else at the last space at or before it, else
\* (or when the index found is 0) at max_length.
C6_CutPolicy_AsStated ==
    max_length >= 1 =>
        \A k \in 1 .. Len(frames) :
            frames[k].split_point = PolicyCut(frames[k].sentence, max_length, max_length)

\* C6 as amended: a sentence longer than max_length is cut at the last comma
\* strictly before index max_length, else at the last space strictly before
\* it, else (or when the index found is 0) at max_length; a comma is preferred
\* over any space.
C6_CutPolicy ==
    max_length >= 1 =>
        \A k \in 1 .. Len(frames) :
            frames[k].split_point = PolicyCut(frames[k].sentence, max_length, max_length - 1)

\* C6's case: a comma precedes a space that is nearer to max_length, and the
\* cut is at the comma.
C6_Witness ==
    /\ max_length >= 1
    /\ Len(frames) >= 1
    /\ \E i \in 1 .. (max_length - 1) :
           /\ frames[1].split_point = i
           /\ frames[1].sentence[i + 1] = ","
           /\ \E j \in (i + 1) .. (max_length - 1) : frames[1].sentence[j + 1] = " "

Terminators == {".", "!"}

EndsWithTerminator(seg) == Len(seg) > 0 /\ seg[Len(seg)] \in Terminators

\* C7: every emitted segment ends with a sentence-terminal character: the
\* first part of every cut, every recursively produced part and every
\* sentence that needed no cut.
C7_SegmentsEndWithTerminator ==
    /\ \A k \in 1 .. Len(frames) : EndsWithTerminator(frames[k].part1)
    /\ AtBase => \A k \in 1 .. Len(Segments) : EndsWithTerminator(Segments[k])
    /\ pc \in {"short_sentence", "long_sentence"} => EndsWithTerminator(sentence)
    /\ pc = "done" /\ entry = "split_and_insert_period" => EndsWithTerminator(output)

\* C7's case: a cut sentence whose parts did not end with a terminator in the
\* input.
C7_Witness ==
    /\ AtBase
    /\ Len(frames) >= 1
    /\ Len(Segments) >= 2
    /\ \A i \in 1 .. Len(Outermost) : Outermost[i] \notin Terminators

\* The n-th newline-delimited block of s holds no character.
IsEmptyBlock(s, n) ==
    ~\E p \in 1 .. Len(s) :
        /\ s[p] # "\n"
        /\ Cardinality({j \in 1 .. (p - 1) : s[j] = "\n"}) = n - 1

\* C8: the output of insert_periods_at_splits has as many newlines, so as
\* many paragraphs, as its input, and an empty paragraph of the input is an
\* empty paragraph of the output.
C8_ParagraphsPreserved ==
    (pc = "done" /\ entry = "insert_periods_at_splits") =>
        /\ Count(output, "\n") = Count(text, "\n")
        /\ \A n \in 1 .. (Count(text, "\n") + 1) :
               IsEmptyBlock(text, n) => IsEmptyBlock(output, n)

\* C8's case: an empty paragraph between two paragraphs that hold a sentence.
C8_Witness ==
    /\ pc = "done"
    /\ entry = "insert_periods_at_splits"
    /\ Count(text, "\n") = 2
    /\ ~IsEmptyBlock(output, 1)
    /\ IsEmptyBlock(text, 2)
    /\ ~IsEmptyBlock(output, 3)

\* C9: for max_length >= 1, a second pass over the segments of a first pass,
\* each taken as a sentence, cuts no segment again and removes no character:
\* it returns each segment as it is.
C9_SecondPassChangesNothing ==
    (AtBase /\ max_length >= 1) =>
        \A k \in 1 .. Len(Segments) :
            split_segments(Segments[k], max_length) = <<Segments[k]>>

\* What C10 expects of a sentence within max_length.
Expected(s) == IF EndsWithTerminator(s) THEN s ELSE s \o <<".">>

\* C10: a sentence of length <= max_length is emitted as one segment,
\* unchanged when its last character is a sentence terminator and with one
\* period appended otherwise, in insert_periods_at_splits and in the base
\* case of split_and_insert_period.
C10_ShortSentenceTerminated ==
    [][/\ BaseCase => result' = Expected(sentence)
       /\ ShortSentence => sentence' = Expected(Head(sentences))]_vars

\* The characters of s other than whitespace, commas and periods, in order.
Words(s) == Remove(s, Whitespace \cup {",", "."})

\* C11: for max_length >= 1, the characters other than whitespace, commas and
\* periods of the output of split_and_insert_period are those of its input,
\* in the same order; every cut, at a comma, a space or max_length, divides
\* them between part1 and part2, and the character at a hard cut is the first
\* character of the remainder.
C11_NoWordsDroppedOrReordered ==
    max_length >= 1 =>
        /\ pc = "done" => Words(output) = Words(text)
        /\ \A k \in 1 .. Len(frames) :
               LET f == frames[k]
                   atCut == f.sentence[f.split_point + 1]
               IN /\ Words(f.part1) \o Words(f.part2) = Words(f.sentence)
                  /\ (CutIsHard(f) /\ atCut \notin Whitespace \cup {","})
                         => (Len(f.part2) > 0 /\ f.part2[1] = atCut)

\* C11's case: hard cuts of a sentence of two different characters, the one
\* at the first cut being kept as the first character of the remainder.
C11_Witness ==
    /\ max_length >= 1
    /\ AtBase
    /\ Len(frames) >= 2
    /\ CutIsHard(frames[1])
    /\ frames[1].sentence[1] = "a"
    /\ frames[1].sentence[max_length + 1] = "!"
    /\ frames[1].part2[1] = "!"

\* C12: for max_length >= 1, every emitted segment has length at most
\* max_length + 1; the first part of a comma cut or a space cut has length at
\* most max_length with its period; only the first part of a hard cut, or a
\* sentence of length exactly max_length that is not cut, has length
\* max_length + 1.
C12_HardBound ==
    max_length >= 1 =>
        /\ \A k \in 1 .. Len(frames) :
               /\ Len(frames[k].part1) <= max_length + 1
               /\ ~CutIsHard(frames[k]) => Len(frames[k].part1) <= max_length
        /\ AtBase =>
               /\ Len(result) <= max_length + 1
               /\ Len(result) = max_length + 1 => Len(sentence) = max_length
               /\ \A k \in 1 .. Len(Segments) : Len(Segments[k]) <= max_length + 1
        /\ pc = "short_sentence" =>
               /\ Len(sentence) <= max_length + 1
               /\ Len(sentence) = max_length + 1 => endswith(sentence, ".")

\* C12's case: a comma cut whose first part stays within max_length, then a
\* remainder of length exactly max_length that reaches max_length + 1.
C12_Witness ==
    /\ max_length >= 1
    /\ AtBase
    /\ Len(frames) = 1
    /\ CutIsComma(frames[1])
    /\ Len(frames[1].part1) = max_length
    /\ Len(sentence) = max_length
    /\ Len(result) = max_length + 1

\* A sentence with no leading or trailing whitespace that holds a character
\* other than whitespace, commas and periods.
WellFormed(s) ==
    /\ Len(s) > 0
    /\ s[1] \notin Whitespace
    /\ s[Len(s)] \notin Whitespace
    /\ Words(s) # <<>>

\* C13: for max_length >= 1 and a sentence with no leading or trailing
\* whitespace that holds a character other than whitespace, commas and
\* periods, no segment of the result is a period alone: every part1 keeps a
\* character before its period, and an empty remainder adds no "." segment.
C13_NoLonePeriod ==
    (max_length >= 1 /\ WellFormed(Outermost)) =>
        /\ \A k \in 1 .. Len(frames) : Len(frames[k].part1) >= 2
        /\ AtBase => \A k \in 1 .. Len(Segments) : Segments[k] # <<".">>

=============================================================================
